---- MODULE Spec2Model ----
(***************************************************************************)
(* Model of the event pipeline: the gin handlers of internal/api           *)
(* (HandleSingleEvent, HandleEventsBatch, GetMetrics), the worker          *)
(* goroutines started by Worker.Start, the event service (Validate,        *)
(* Process, Store over InsertEvent) and the process life cycle of          *)
(* cmd/main.go.                                                            *)
(***************************************************************************)
EXTENDS Integers, Sequences, FiniteSets, TLC

\* ---------------------------------------------------------------- bounds
MaxReq == 2         \* HTTP requests served in one run
MaxWorkers == 2     \* events posted to /events/batch in one run, all arrays together
MaxSend == 2        \* sends offered on job channels (WorkerSpec only)
MaxStore == 2       \* events handed to one call of Store (ServiceSpec only)

\* ------------------------------------------------------ program constants
StatusOK == 200
StatusAccepted == 202
StatusBadRequest == 400

ReqIds == 1..MaxReq

\* ------------------------------------------------------------- EventDTO
\* A *string is a sequence of length <= 1: <<>> is the nil pointer.
NilPtr == <<>>
Ids == {NilPtr, <<"">>, <<"e1">>}
EventTypes == {"", "user_action", "sensor_data", "system_log", "bogus"}
Sources == {"", "web"}
\* time.Time: the zero time and one instant.
ZeroTime == "0001-01-01T00:00:00Z"
Times == {ZeroTime, "2025-01-15T10:30:00Z"}
UserIds == {NilPtr, <<"u1">>}
\* Data: Value is a float32, Metadata a map, given as its set of entries.
Data == [Action : {"", "login"}, Value : {0, 100}, Metadata : {{}, {<<"k", "v">>}}]
ZeroData == [Action |-> "", Value |-> 0, Metadata |-> {}]

EventDTO ==
    [ID : Ids, Type : EventTypes, Source : Sources, Timestamp : Times,
     UserID : UserIds, Data : Data]
ZeroEvent ==
    [ID |-> NilPtr, Type |-> "", Source |-> "", Timestamp |-> ZeroTime,
     UserID |-> NilPtr, Data |-> ZeroData]
\* The event with the given id, type and source, its other fields zero.
Event(id, type, source) == [ZeroEvent EXCEPT !.ID = id, !.Type = type, !.Source = source]

\* The events posted to /events: with and without an id, with an empty, an
\* unrecognized and a recognized type, with and without a source.
SingleEvents ==
    { Event(<<"e1">>, "user_action", "web"), Event(NilPtr, "user_action", "web"),
      Event(<<"e1">>, "bogus", "web"), Event(<<"e1">>, "user_action", ""),
      ZeroEvent }

\* The events posted in batches: one valid event with an id, one invalid
\* event without one.
BatchEvents == {Event(<<"e1">>, "user_action", "web"), ZeroEvent}

RECURSIVE SeqsUpTo(_, _)
SeqsUpTo(S, n) ==
    IF n = 0 THEN {<<>>}
    ELSE LET shorter == SeqsUpTo(S, n - 1)
         IN  shorter \cup {Append(s, x) : s \in {t \in shorter : Len(t) = n - 1}, x \in S}

\* ------------------------------------------------------- request bodies
\* kind "garbage": not JSON; "obj": a JSON object with the event fields;
\* "arr": a JSON array of such objects.
Body(kind, obj, arr) == [kind |-> kind, obj |-> obj, arr |-> arr]
NoBody == Body("none", ZeroEvent, <<>>)

\* json.Unmarshal(body, &event) with event an EventDTO: an object decodes,
\* absent fields keeping their zero value; an array or a non-JSON body is
\* an error.
UnmarshalEvent(body) ==
    IF body.kind = "obj"
    THEN [err |-> FALSE, event |-> body.obj]
    ELSE [err |-> TRUE, event |-> ZeroEvent]

\* json.Unmarshal(body, &events) with events a []EventDTO: only an array
\* decodes.
UnmarshalEvents(body) ==
    IF body.kind = "arr"
    THEN [err |-> FALSE, events |-> body.arr]
    ELSE [err |-> TRUE, events |-> <<>>]

\* ------------------------------------------------------------- Validate
\* The error Validate returns, "" for nil.
Validate(event) ==
    IF event.Type = "" THEN "event type is required"
    ELSE IF event.Source = "" THEN "event source is required"
    ELSE ""

\* storage.ProcessedEvent: as EventDTO, but the ID is a string.
ProcessedEvent ==
    [ID : {"", "e1"}, Type : EventTypes, Source : Sources, Timestamp : Times,
     UserID : UserIds, Data : Data]
ZeroProcessed ==
    [ID |-> "", Type |-> "", Source |-> "", Timestamp |-> ZeroTime,
     UserID |-> NilPtr, Data |-> ZeroData]

\* Process with the metadata of the event left out of the result.
ProcessNoMetadata(event) ==
    IF event.ID = NilPtr
    THEN [panic |-> TRUE, err |-> "", pe |-> ZeroProcessed, event |-> event]
    ELSE [panic |-> FALSE, err |-> "",
          pe |-> [ID |-> event.ID[1],
                  Type |-> event.Type,
                  Source |-> event.Source,
                  Timestamp |-> event.Timestamp,
                  UserID |-> event.UserID,
                  Data |-> [Action |-> event.Data.Action,
                            Value |-> event.Data.Value,
                            Metadata |-> {}]],
          event |-> event]

\* Process: the outcome of the call. The result is built from the fields of
\* the event, the ID by dereferencing the pointer: a nil ID panics and
\* nothing is returned. No statement of Process writes to the event, which
\* is returned here as the call leaves it. (The 10ns sleep is left out.)
Process(event) ==
    IF event.ID = NilPtr
    THEN [panic |-> TRUE, err |-> "", pe |-> ZeroProcessed, event |-> event]
    ELSE [panic |-> FALSE, err |-> "",
          pe |-> [ID |-> event.ID[1],
                  Type |-> event.Type,
                  Source |-> event.Source,
                  Timestamp |-> event.Timestamp,
                  UserID |-> event.UserID,
                  Data |-> [Action |-> event.Data.Action,
                            Value |-> event.Data.Value,
                            Metadata |-> event.Data.Metadata]],
          event |-> event]

\* InsertEvent: builds the row and executes the INSERT; dbErr says that the
\* database refused it. Returns (nil, err) then, (the row, nil) otherwise.
InsertEvent(id, eventType, source, timestamp, userID, data, dbErr) ==
    LET event == [ID |-> id, Type |-> eventType, Source |-> source,
                  Timestamp |-> timestamp, UserID |-> userID, Data |-> data]
    IN  IF dbErr
        THEN [event |-> NilPtr, err |-> "insert failed"]
        ELSE [event |-> <<event>>, err |-> ""]

\* The loop of Store from its k-th iteration on; inserts are the results of
\* the InsertEvent calls made so far. A failed insert is logged and the loop
\* goes on; after an insert without error Store returns that (nil) error.
RECURSIVE StoreFrom(_, _, _, _)
StoreFrom(events, dbErrs, k, inserts) ==
    IF k > Len(events)
    THEN [err |-> "", inserts |-> inserts]
    ELSE LET event == events[k]
             saved == InsertEvent(event.ID, event.Type, event.Source,
                                  event.Timestamp, event.UserID,
                                  [Action |-> event.Data.Action,
                                   Value |-> event.Data.Value,
                                   Metadata |-> event.Data.Metadata],
                                  dbErrs[k])
         IN  IF saved.err # ""
             THEN StoreFrom(events, dbErrs, k + 1, Append(inserts, saved))
             ELSE [err |-> saved.err, inserts |-> Append(inserts, saved)]

\* Store(events), dbErrs[k] saying whether the database refuses the k-th
\* event.
Store(events, dbErrs) == StoreFrom(events, dbErrs, 1, <<>>)

\* The rows in the events table after a call: the inserts without error.
Rows(inserts) == SelectSeq(inserts, LAMBDA i : i.err = "")

\* A call of the event service made on its own: arg says whether it is
\* given one event or a slice; fn is the method called, "none" before it.
ServiceCall(arg, event, events, dbErrs) ==
    [arg |-> arg, event |-> event, events |-> events, dbErrs |-> dbErrs,
     fn |-> "none", err |-> "", panic |-> FALSE, pe |-> ZeroProcessed,
     inserts |-> <<>>]
NoCall == ServiceCall("none", ZeroEvent, <<>>, <<>>)

\* The events handed to Store in the model.
StoreEvents ==
    {Process(Event(<<"e1">>, "user_action", "web")).pe,
     Process(Event(<<"">>, "system_log", "web")).pe}

\* ---------------------------------------------------------------- state
VARIABLES
    running,      \* the process is alive (ginRouter.Run has not returned)
    req,          \* req[r]: route and body of request r
    pc,           \* pc[r]: position of the handler of request r
    loopIdx,      \* loopIdx[r]: iterations done by the loop of HandleEventsBatch
    resp,         \* resp[r]: the responses the handler of r wrote (ctx.JSON), in order
    ctxDone,      \* ctxDone[r]: the Done channel of r's context is closed
    workers,      \* workers[w]: the Worker started as <<r, i>>
    sendq,        \* sendq[c]: jobs whose senders are blocked on channel c
    sent,         \* sends offered so far
    calls,        \* calls[r]: the calls r's handler made to the event service, in order
    begun,        \* begun[n]: the number of processJob calls for the n-th job sent
    svc           \* a call of the event service made on its own: input, position, result

vars ==
    <<running, req, pc, loopIdx, resp, ctxDone, workers, sendq, sent, calls, begun, svc>>

Routes == {"POST /events", "POST /events/batch", "GET /metrics"}

\* A response: its status and the keys and values of its JSON body.
Response(status, body) == [status |-> status, body |-> body]

\* The worker ids: request and index in its decoded array.
WorkerIds == ReqIds \X (0..(MaxWorkers - 1))
Started == DOMAIN workers
Live == {w \in Started : workers[w].state # "terminated"}

\* The number of array elements posted so far.
RECURSIVE SumLen(_)
SumLen(R) ==
    IF R = {} THEN 0
    ELSE LET r == CHOOSE x \in R : TRUE
         IN  Len(req[r].body.arr) + SumLen(R \ {r})
Posted == SumLen({r \in ReqIds : req[r].body.kind = "arr"})

InitProgram ==
    /\ running = TRUE
    /\ req = [r \in ReqIds |-> [route |-> "none", body |-> NoBody]]
    /\ pc = [r \in ReqIds |-> "none"]
    /\ loopIdx = [r \in ReqIds |-> 0]
    /\ resp = [r \in ReqIds |-> <<>>]
    /\ ctxDone = [r \in ReqIds |-> FALSE]
    /\ workers = <<>>
    /\ sendq = <<>>
    /\ sent = 0
    /\ calls = [r \in ReqIds |-> <<>>]
    /\ begun = <<>>

Init == InitProgram /\ svc = NoCall

\* ------------------------------------------------------------- Routers
\* A request arrives and the router hands it to the handler of its route.
\* Requests are numbered in the order of their arrival.
Bodies(route) ==
    CASE route = "POST /events" ->
            {Body("garbage", ZeroEvent, <<>>), Body("arr", ZeroEvent, <<>>)}
            \cup {Body("obj", e, <<>>) : e \in SingleEvents}
      [] route = "POST /events/batch" ->
            {Body("garbage", ZeroEvent, <<>>), Body("obj", ZeroEvent, <<>>)}
            \cup {Body("arr", ZeroEvent, a) :
                     a \in SeqsUpTo(BatchEvents, MaxWorkers - Posted)}
      [] OTHER -> {NoBody}

Serve(r, route) ==
    /\ running
    /\ pc[r] = "none"
    /\ \A q \in ReqIds : q < r => pc[q] # "none"
    /\ \E body \in Bodies(route) :
          /\ req' = [req EXCEPT ![r] = [route |-> route, body |-> body]]
          /\ pc' = [pc EXCEPT ![r] = "handler"]
    /\ UNCHANGED <<running, loopIdx, resp, ctxDone, workers, sendq, sent, calls, begun, svc>>

\* ---------------------------------------------------- HandleSingleEvent
\* HandleSingleEvent going on to Process and Store whatever Validate
\* returned.
HandleSingleEventUngated(r) ==
    /\ running
    /\ pc[r] = "handler"
    /\ req[r].route = "POST /events"
    /\ LET dec == UnmarshalEvent(req[r].body)
       IN  IF dec.err
           THEN /\ resp' = [resp EXCEPT ![r] =
                       Append(@, Response(StatusBadRequest, {<<"error", "invalid request">>}))]
                /\ calls' = calls
           ELSE /\ calls' = [calls EXCEPT ![r] =
                       @ \o <<[fn |-> "Validate", event |-> dec.event,
                               err |-> Validate(dec.event)],
                              [fn |-> "Process", event |-> dec.event, err |-> ""],
                              [fn |-> "Store", event |-> dec.event, err |-> ""]>>]
                /\ resp' = resp
    /\ pc' = [pc EXCEPT ![r] = "done"]
    /\ UNCHANGED <<running, req, loopIdx, ctxDone, workers, sendq, sent, begun, svc>>

\* Decode the body; answer 400 on an error, else call Validate and return.
HandleSingleEvent(r) ==
    /\ running
    /\ pc[r] = "handler"
    /\ req[r].route = "POST /events"
    /\ LET dec == UnmarshalEvent(req[r].body)
       IN  IF dec.err
           THEN /\ resp' = [resp EXCEPT ![r] =
                       Append(@, Response(StatusBadRequest, {<<"error", "invalid request">>}))]
                /\ calls' = calls
           ELSE \* the error Validate returns is dropped and nothing is written
                /\ calls' = [calls EXCEPT ![r] =
                       Append(@, [fn |-> "Validate", event |-> dec.event,
                                  err |-> Validate(dec.event)])]
                /\ resp' = resp
    /\ pc' = [pc EXCEPT ![r] = "done"]
    /\ UNCHANGED <<running, req, loopIdx, ctxDone, workers, sendq, sent, begun, svc>>

\* ---------------------------------------------------- HandleEventsBatch
\* HandleEventsBatch without the return after the 400: it goes on to the
\* 202 and the loop.
HandleEventsBatchNoReturn(r) ==
    /\ running
    /\ pc[r] = "handler"
    /\ req[r].route = "POST /events/batch"
    /\ LET dec == UnmarshalEvents(req[r].body)
           accepted == Response(StatusAccepted, {<<"status", "batch processing started">>})
       IN  IF dec.err
           THEN resp' = [resp EXCEPT ![r] =
                   @ \o <<Response(StatusBadRequest, {<<"error", "invalid request">>}),
                          accepted>>]
           ELSE resp' = [resp EXCEPT ![r] = Append(@, accepted)]
    /\ pc' = [pc EXCEPT ![r] = "loop"]
    /\ UNCHANGED <<running, req, loopIdx, ctxDone, workers, sendq, sent, calls, begun, svc>>

\* Lines 59-69: decode the body; answer 400 on an error, else answer 202
\* and enter the loop over the decoded events.
HandleEventsBatch(r) ==
    /\ running
    /\ pc[r] = "handler"
    /\ req[r].route = "POST /events/batch"
    /\ LET dec == UnmarshalEvents(req[r].body)
       IN  IF dec.err
           THEN /\ resp' = [resp EXCEPT ![r] =
                       Append(@, Response(StatusBadRequest, {<<"error", "invalid request">>}))]
                /\ pc' = [pc EXCEPT ![r] = "done"]
           ELSE /\ resp' = [resp EXCEPT ![r] =
                       Append(@, Response(StatusAccepted,
                                          {<<"status", "batch processing started">>}))]
                /\ pc' = [pc EXCEPT ![r] = "loop"]
    /\ UNCHANGED <<running, req, loopIdx, ctxDone, workers, sendq, sent, calls, begun, svc>>

\* The Worker built by iteration i of the loop for request r: its job
\* channel and the ingestion channel of its own EventPipeline are made by
\* that iteration.
NewWorker(r, i) ==
    [Id |-> i, jobChan |-> <<r, i, "jobChan">>,
     ingestionChan |-> <<r, i, "ingestionChan">>, ctx |-> r,
     state |-> "idle"]

\* The capacity of a channel made by make(chan api.EventDTO).
ChanCap == 0

\* Lines 71-81: one iteration of the loop builds a Worker and starts its
\* goroutine; the event of the iteration is sent nowhere. After the last
\* iteration the handler returns.
BatchLoop(r) ==
    /\ running
    /\ pc[r] = "loop"
    /\ LET events == UnmarshalEvents(req[r].body).events
           i == loopIdx[r]
       IN  IF i < Len(events)
           THEN /\ workers' = workers @@ (<<r, i>> :> NewWorker(r, i))
                /\ sendq' = sendq @@ (NewWorker(r, i).jobChan :> <<>>)
                                   @@ (NewWorker(r, i).ingestionChan :> <<>>)
                /\ loopIdx' = [loopIdx EXCEPT ![r] = i + 1]
                /\ pc' = pc
           ELSE /\ pc' = [pc EXCEPT ![r] = "done"]
                /\ UNCHANGED <<workers, sendq, loopIdx>>
    /\ UNCHANGED <<running, req, resp, ctxDone, sent, calls, begun, svc>>

\* ----------------------------------------------------------- GetMetrics
GetMetrics(r) ==
    /\ running
    /\ pc[r] = "handler"
    /\ req[r].route = "GET /metrics"
    /\ resp' = [resp EXCEPT ![r] =
            Append(@, Response(StatusOK, {<<"status", "metrics not implemented">>}))]
    /\ pc' = [pc EXCEPT ![r] = "done"]
    /\ UNCHANGED <<running, req, loopIdx, ctxDone, workers, sendq, sent, calls, begun, svc>>

\* --------------------------------------------------------- Worker.Start
\* The receive case leaving the job with its sender.
WorkerRecvNoDequeue(w) ==
    /\ running
    /\ w \in Started
    /\ workers[w].state = "idle"
    /\ sendq[workers[w].jobChan] # <<>>
    /\ LET job == Head(sendq[workers[w].jobChan])
       IN  /\ workers' = [workers EXCEPT ![w].state = "processing"]
           /\ begun' = [begun EXCEPT ![job.n] = @ + 1]
    /\ UNCHANGED <<running, req, pc, loopIdx, resp, ctxDone, sendq, sent, calls, svc>>

\* case job := <-w.jobChan: a sender is blocked on the channel; the worker
\* takes its job and calls processJob. The select does not look at the
\* other case: with both ready it may take this one.
WorkerRecv(w) ==
    /\ running
    /\ w \in Started
    /\ workers[w].state = "idle"
    /\ sendq[workers[w].jobChan] # <<>>
    /\ LET job == Head(sendq[workers[w].jobChan])
       IN  /\ workers' = [workers EXCEPT ![w].state = "processing"]
           /\ begun' = [begun EXCEPT ![job.n] = @ + 1]
    /\ sendq' = [sendq EXCEPT ![workers[w].jobChan] = Tail(@)]
    /\ UNCHANGED <<running, req, pc, loopIdx, resp, ctxDone, sent, calls, svc>>

\* processJob has an empty body: it returns and the loop selects again.
processJob(w) ==
    /\ running
    /\ w \in Started
    /\ workers[w].state = "processing"
    /\ workers' = [workers EXCEPT ![w].state = "idle"]
    /\ UNCHANGED <<running, req, pc, loopIdx, resp, ctxDone, sendq, sent, calls, begun, svc>>

\* case <-ctx.Done(): return.
WorkerDone(w) ==
    /\ running
    /\ w \in Started
    /\ workers[w].state = "idle"
    /\ ctxDone[workers[w].ctx]
    /\ workers' = [workers EXCEPT ![w].state = "terminated"]
    /\ UNCHANGED <<running, req, pc, loopIdx, resp, ctxDone, sendq, sent, calls, begun, svc>>

\* ---------------------------------------------------------- environment
\* The Done channel of the context of request r becomes ready. No statement
\* of the program raises it (there is no cancel function and the handler's
\* return is not one): whether and when it happens is left to the
\* framework, so no specification owes it. Only the workers of r read it:
\* a request that starts none is left out.
Cancel(r) ==
    /\ running
    /\ req[r].route = "POST /events/batch"
    /\ UnmarshalEvents(req[r].body).events # <<>>
    /\ ~ctxDone[r]
    /\ ctxDone' = [ctxDone EXCEPT ![r] = TRUE]
    /\ UNCHANGED <<running, req, pc, loopIdx, resp, workers, sendq, sent, calls, begun, svc>>

\* The event of the loop iteration that built worker w.
EventOf(w) == req[w[1]].body.arr[w[2] + 1]

\* A goroutine blocks in a send, on the job channel of worker w, of the
\* event w was built for. No statement of the handlers does this: it
\* drives Worker.Start in WorkerSpec only.
SendJob(w) ==
    /\ running
    /\ w \in Started
    /\ sent < MaxSend
    /\ sent' = sent + 1
    /\ sendq' = [sendq EXCEPT ![workers[w].jobChan] =
                    Append(@, [event |-> EventOf(w), n |-> sent + 1])]
    /\ begun' = Append(begun, 0)
    /\ UNCHANGED <<running, req, pc, loopIdx, resp, ctxDone, workers, calls, svc>>

\* ----------------------------------------------------------------- main
\* ginRouter.Run returns an error and log.Fatal ends the process, with
\* every goroutine in it; main has no other way to stop.
main ==
    /\ running
    /\ running' = FALSE
    /\ UNCHANGED <<req, pc, loopIdx, resp, ctxDone, workers, sendq, sent, calls, begun, svc>>

\* ------------------------------------------------------- specifications
Next ==
    \/ \E r \in ReqIds, route \in Routes : Serve(r, route)
    \/ \E r \in ReqIds : HandleSingleEvent(r)
    \/ \E r \in ReqIds : HandleEventsBatch(r)
    \/ \E r \in ReqIds : BatchLoop(r)
    \/ \E r \in ReqIds : GetMetrics(r)
    \/ \E r \in ReqIds : Cancel(r)
    \/ \E w \in WorkerIds : WorkerDone(w)
    \/ main

Spec == Init /\ [][Next]_vars

\* The program's own steps are taken when they can be; requests, the
\* cancellation of a context and the end of the process are not owed.
Fairness ==
    /\ \A r \in ReqIds :
          /\ WF_vars(HandleSingleEvent(r))
          /\ WF_vars(HandleEventsBatch(r))
          /\ WF_vars(BatchLoop(r))
          /\ WF_vars(GetMetrics(r))
    /\ \A w \in WorkerIds : WF_vars(WorkerDone(w))

FairSpec == Spec /\ Fairness

\* Worker.Start driven by senders on the job channels. The workers are
\* those of batch requests, posted one after the other.
ServeBatch(r) ==
    /\ Serve(r, "POST /events/batch")
    /\ req'[r].body.kind = "arr"
    /\ \A q \in ReqIds : q < r => pc[q] = "done"

WorkerNext ==
    \/ \E r \in ReqIds : ServeBatch(r)
    \/ \E r \in ReqIds : HandleEventsBatch(r)
    \/ \E r \in ReqIds : BatchLoop(r)
    \/ \E r \in ReqIds : Cancel(r)
    \/ \E w \in WorkerIds : WorkerDone(w)
    \/ \E w \in WorkerIds : SendJob(w)
    \/ \E w \in WorkerIds : WorkerRecv(w)
    \/ \E w \in WorkerIds : processJob(w)

WorkerSpec == Init /\ [][WorkerNext]_vars

\* ------------------------------------------------------------- channels
\* sendq[c] holds the jobs sent on c and not yet received, oldest first: the
\* first ChanCap of them sit in the buffer of c, the senders of the others
\* are blocked.
Buffered(c) ==
    SubSeq(sendq[c], 1, IF Len(sendq[c]) < ChanCap THEN Len(sendq[c]) ELSE ChanCap)

\* A worker is parked in the select of Worker.Start on channel c.
Receiving(c) ==
    \E w \in Started : workers[w].jobChan = c /\ workers[w].state = "idle"

\* A send on c would not block: the buffer has a free slot, or a worker is
\* waiting to receive.
Room(c) == Len(sendq[c]) < ChanCap \/ (sendq[c] = <<>> /\ Receiving(c))
HasRoom == \E c \in DOMAIN sendq : Room(c)

\* --------------------------------------------------- requests and events
Statuses(r) == {resp[r][k].status : k \in DOMAIN resp[r]}
Keys(body) == {p[1] : p \in body}
Value(body, key) == (CHOOSE p \in body : p[1] = key)[2]

\* The events request r submits: the decoded body of its route.
Submitted(r) ==
    CASE req[r].route = "POST /events" /\ ~UnmarshalEvent(req[r].body).err ->
            <<UnmarshalEvent(req[r].body).event>>
      [] req[r].route = "POST /events/batch" -> UnmarshalEvents(req[r].body).events
      [] OTHER -> <<>>

\* Event i of request r was answered with a success status.
Accepted(r, i) ==
    /\ i \in DOMAIN Submitted(r)
    /\ \E st \in Statuses(r) : st >= StatusOK /\ st < StatusOK + 100

\* Event i of request r was passed to Store.
Processed(r, i) ==
    \E k \in DOMAIN calls[r] :
        calls[r][k].fn = "Store" /\ calls[r][k].event = Submitted(r)[i]

\* Event i of request r was recorded as failed. The program keeps no such
\* record: EventPipeline has no metrics and processJob is empty.
Failed(r, i) == FALSE

\* Event i of request r is on the job channel of the worker built for it,
\* or in that worker's processJob.
Handed(r, i) ==
    /\ <<r, i - 1>> \in Started
    /\ \/ sendq[workers[<<r, i - 1>>].jobChan] # <<>>
       \/ workers[<<r, i - 1>>].state = "processing"

\* The handlers send nothing: in Spec no job is ever on a channel, so the
\* receive case of Worker.Start is never ready there.
NothingSent == sent = 0 /\ \A c \in DOMAIN sendq : sendq[c] = <<>>

\* ================================================================ claims

\* C1: every accepted event eventually reaches exactly one terminal
\* outcome, processed or failed, as long as the process lives.
C1_TerminalOutcome ==
    \A r \in ReqIds, i \in 1..MaxWorkers :
        Accepted(r, i) ~> (~running \/ (Processed(r, i) # Failed(r, i)))

\* C2: the number of worker goroutines never changes with the requests
\* submitted, and all workers receive from one and the same channel.
C2_FixedPoolSharedQueue ==
    [][ /\ Cardinality(DOMAIN workers') = Cardinality(DOMAIN workers)
        /\ \A v, w \in DOMAIN workers' : workers'[v].jobChan = workers'[w].jobChan ]_vars

\* C3: no channel buffers more jobs than its capacity, and a submission
\* handled while no channel has room is answered with the capacity-exceeded
\* status (503 Service Unavailable) and leaves the channels as they were.
C3_BoundedQueueRejects ==
    /\ [](\A c \in DOMAIN sendq : Len(Buffered(c)) <= ChanCap)
    /\ [][ \A r \in ReqIds :
             (pc[r] = "handler" /\ pc'[r] # "handler" /\ Submitted(r) # <<>> /\ ~HasRoom)
             => (Statuses(r)' = {503} /\ sendq' = sendq) ]_vars

\* C4: a worker whose context is cancelled never begins processJob again.
C4_NoJobAfterCancel ==
    [][ \A w \in DOMAIN workers :
          (ctxDone[workers[w].ctx] /\ workers[w].state # "processing")
          => workers'[w].state # "processing" ]_vars

\* C5: every worker whose request has completed eventually terminates, as
\* long as the process lives.
C5_WorkersTerminate ==
    \A w \in WorkerIds :
        (w \in Started /\ pc[w[1]] = "done")
        ~> (~running \/ (w \in Started /\ workers[w].state = "terminated"))

\* C6: once the process has shut down no submission is answered any more,
\* and every event accepted before is processed or recorded as failed.
C6_ShutdownDrains ==
    /\ [][~running => resp' = resp]_vars
    /\ [](~running =>
            \A r \in ReqIds, i \in 1..MaxWorkers :
                Accepted(r, i) => (Processed(r, i) \/ Failed(r, i)))

\* C7: every answer of GET /metrics carries the counters events_received,
\* events_processed and events_failed, with processed + failed <= received.
C7_MetricsCounters ==
    \A r \in ReqIds :
        (req[r].route = "GET /metrics" /\ pc[r] = "done")
        => /\ Len(resp[r]) = 1
           /\ {"events_received", "events_processed", "events_failed"}
                 \subseteq Keys(resp[r][1].body)
           /\ Value(resp[r][1].body, "events_processed")
                 + Value(resp[r][1].body, "events_failed")
                 <= Value(resp[r][1].body, "events_received")

\* C8: a POST /events whose body decodes to an event that fails Validate
\* is answered 400 with the validation error, and the event is neither
\* handed to a worker nor stored.
C8_InvalidSingleRejected ==
    \A r \in ReqIds :
        (req[r].route = "POST /events" /\ pc[r] = "done"
            /\ Submitted(r) # <<>> /\ Validate(Submitted(r)[1]) # "")
        => /\ Len(resp[r]) = 1
           /\ resp[r][1].status = StatusBadRequest
           /\ <<"error", Validate(Submitted(r)[1])>> \in resp[r][1].body
           /\ ~Processed(r, 1)
           /\ NothingSent

\* C9: a POST /events whose body decodes to an event that passes Validate,
\* handled while a channel has room, is answered 202 with a non-empty id
\* (the submitted one when there is one) and the event is sent to a worker.
C9_ValidSingleAccepted ==
    [][ \A r \in ReqIds :
          (pc[r] = "handler" /\ pc'[r] = "done" /\ req[r].route = "POST /events"
              /\ Submitted(r) # <<>> /\ Validate(Submitted(r)[1]) = "" /\ HasRoom)
          => /\ Len(resp'[r]) = 1
             /\ resp'[r][1].status = StatusAccepted
             /\ "id" \in Keys(resp'[r][1].body)
             /\ Value(resp'[r][1].body, "id") # ""
             /\ Submitted(r)[1].ID \notin {NilPtr, <<"">>}
                   => Value(resp'[r][1].body, "id") = Submitted(r)[1].ID[1]
             /\ sendq' # sendq ]_vars

\* C10: when the handler of a batch answered with 202 has returned, every
\* item of the batch is handed to a worker or reported as rejected in the
\* response.
C10_BatchItemsAccounted ==
    \A r \in ReqIds :
        (req[r].route = "POST /events/batch" /\ pc[r] = "done"
            /\ StatusAccepted \in Statuses(r))
        => \A i \in DOMAIN Submitted(r) :
              \/ Handed(r, i)
              \/ \E k \in DOMAIN resp[r] : <<"rejected", i>> \in resp[r][k].body

\* ------------------------------------------------- batches at the limit
\* The largest batch the API accepts, by the README ("up to 100"); the
\* handler itself names no limit.
BatchLimit == 100

\* A batch of n copies of one valid event.
Copies(e, n) == [k \in 1..n |-> e]

\* A POST /events/batch arrives whose array is at the limit or one above
\* it; the requests are posted one after the other.
ServeLarge(r) ==
    /\ running
    /\ pc[r] = "none"
    /\ \A q \in ReqIds : q < r => pc[q] = "done"
    /\ \E n \in {BatchLimit, BatchLimit + 1} :
          req' = [req EXCEPT ![r] =
                     [route |-> "POST /events/batch",
                      body |-> Body("arr", ZeroEvent,
                                    Copies(Event(<<"e1">>, "user_action", "web"), n))]]
    /\ pc' = [pc EXCEPT ![r] = "handler"]
    /\ UNCHANGED <<running, loopIdx, resp, ctxDone, workers, sendq, sent, calls, begun, svc>>

LimitNext ==
    \/ \E r \in ReqIds : ServeLarge(r)
    \/ \E r \in ReqIds : HandleEventsBatch(r)
    \/ \E r \in ReqIds : BatchLoop(r)

LimitSpec == Init /\ [][LimitNext]_vars

\* The workers started for request r.
WorkersOf(r) == {w \in Started : w[1] = r}

\* C11: a batch of more than 100 events is answered with 400 only, no
\* worker is started for it and nothing is enqueued; a batch answered 202
\* has at most 100 events.
C11_OversizedBatchRejected ==
    \A r \in ReqIds :
        (req[r].route = "POST /events/batch" /\ pc[r] \in {"loop", "done"}
            /\ Len(Submitted(r)) > BatchLimit)
        => /\ Statuses(r) = {StatusBadRequest}
           /\ WorkersOf(r) = {}
           /\ NothingSent

\* ------------------------------------------- the event service on its own
\* Validate, Process and Store called directly, each on every input of a
\* bounded set: an event for Validate and Process, a slice of processed
\* events and the outcome of each INSERT for Store.
ServiceInputs ==
    {ServiceCall("event", e, <<>>, <<>>) : e \in EventDTO}
    \cup {ServiceCall("events", ZeroEvent, es, d) :
             es \in SeqsUpTo(StoreEvents, MaxStore), d \in SeqsUpTo(BOOLEAN, MaxStore)}

ServiceInit ==
    /\ InitProgram
    /\ svc \in ServiceInputs
    /\ Len(svc.dbErrs) = Len(svc.events)

CallValidate ==
    /\ svc.arg = "event"
    /\ svc.fn = "none"
    /\ svc' = [svc EXCEPT !.fn = "Validate", !.err = Validate(svc.event)]
    /\ UNCHANGED <<running, req, pc, loopIdx, resp, ctxDone, workers, sendq, sent, calls, begun>>

\* Process is called on any event, validated before or not.
CallProcess ==
    /\ svc.arg = "event"
    /\ svc.fn \in {"none", "Validate"}
    /\ LET out == Process(svc.event)
       IN  svc' = [svc EXCEPT !.fn = "Process", !.event = out.event,
                              !.panic = out.panic, !.err = out.err, !.pe = out.pe]
    /\ UNCHANGED <<running, req, pc, loopIdx, resp, ctxDone, workers, sendq, sent, calls, begun>>

CallStore ==
    /\ svc.arg = "events"
    /\ svc.fn = "none"
    /\ LET out == Store(svc.events, svc.dbErrs)
       IN  svc' = [svc EXCEPT !.fn = "Store", !.err = out.err, !.inserts = out.inserts]
    /\ UNCHANGED <<running, req, pc, loopIdx, resp, ctxDone, workers, sendq, sent, calls, begun>>

ServiceNext ==
    \/ CallValidate
    \/ CallProcess
    \/ CallStore

ServiceSpec == ServiceInit /\ [][ServiceNext]_vars

\* The event types the data model names.
RecognizedTypes == {"user_action", "sensor_data", "system_log"}

\* C12: Validate returns nil exactly for the events with one of the three
\* recognized types and a non-empty source, and an error for all others.
C12_ValidateRecognizedTypes ==
    svc.fn = "Validate"
    => (svc.err = "" <=> (svc.event.Type \in RecognizedTypes /\ svc.event.Source # ""))

\* C13: for every event that passes Validate, with or without an id,
\* Process returns normally and without error a ProcessedEvent with a
\* non-empty id, the submitted id when there is one.
C13_ProcessAssignsId ==
    (svc.fn = "Process" /\ Validate(svc.event) = "")
    => /\ ~svc.panic
       /\ svc.err = ""
       /\ svc.pe.ID # ""
       /\ svc.event.ID # NilPtr => svc.pe.ID = svc.event.ID[1]

\* Some InsertEvent call of the Store call failed.
InsertFailed == \E k \in DOMAIN svc.inserts : svc.inserts[k].err # ""

\* C14: Store returns an error when an InsertEvent call of the batch
\* failed, and nil only when none failed.
C14_StoreReportsFailure ==
    svc.fn = "Store" => (svc.err # "" <=> InsertFailed)

\* C17: when every insert succeeds, Store calls InsertEvent once for each
\* element of events, in slice order, and returns nil; as many rows are
\* inserted as the slice has elements.
C17_StoreInsertsAll ==
    (svc.fn = "Store" /\ \A k \in DOMAIN svc.dbErrs : ~svc.dbErrs[k])
    => /\ svc.err = ""
       /\ Len(svc.inserts) = Len(svc.events)
       /\ \A k \in DOMAIN svc.inserts : svc.inserts[k].event = <<svc.events[k]>>
       /\ Len(Rows(svc.inserts)) = Len(svc.events)

\* C18: a call of Process on an event with an id returns a ProcessedEvent
\* with the id, type, source, timestamp, user id, action, value and
\* metadata of the event, and leaves the event as it was.
C18_ProcessCopiesFields ==
    [][ (svc.arg = "event" /\ svc.fn # "Process" /\ svc'.fn = "Process"
            /\ svc.event.ID # NilPtr)
        => /\ ~svc'.panic
           /\ svc'.err = ""
           /\ svc'.pe.ID = svc.event.ID[1]
           /\ svc'.pe.Type = svc.event.Type
           /\ svc'.pe.Source = svc.event.Source
           /\ svc'.pe.Timestamp = svc.event.Timestamp
           /\ svc'.pe.UserID = svc.event.UserID
           /\ svc'.pe.Data.Action = svc.event.Data.Action
           /\ svc'.pe.Data.Value = svc.event.Data.Value
           /\ svc'.pe.Data.Metadata = svc.event.Data.Metadata
           /\ svc'.event = svc.event ]_vars

\* Process has returned for an event with an id none of whose fields is
\* the zero value.
C18_Witness ==
    /\ svc.fn = "Process"
    /\ ~svc.panic
    /\ svc.event.ID = <<"e1">>
    /\ svc.event.Type = "sensor_data"
    /\ svc.event.Source = "web"
    /\ svc.event.Timestamp # ZeroTime
    /\ svc.event.UserID # NilPtr
    /\ svc.event.Data.Action # ""
    /\ svc.event.Data.Value # 0
    /\ svc.event.Data.Metadata # {}
    /\ svc.pe.ID = "e1"

\* The calls of fn among the first k calls of request r's handler that were
\* given event e and returned err.
Called(r, k, fn, e, err) ==
    \E j \in 1..k :
        /\ calls[r][j].fn = fn
        /\ calls[r][j].event = e
        /\ calls[r][j].err = err

\* C15: Process is called for an event only after Validate returned nil
\* for it, Store only after Process succeeded for it; an event that failed
\* validation is neither processed nor stored.
C15_StagesGated ==
    \A r \in ReqIds : \A k \in DOMAIN calls[r] :
        LET c == calls[r][k]
        IN  /\ c.fn = "Process" => Called(r, k - 1, "Validate", c.event, "")
            /\ c.fn = "Store" => Called(r, k - 1, "Process", c.event, "")
            /\ (c.fn = "Validate" /\ c.err # "")
                  => \A j \in DOMAIN calls[r] :
                        calls[r][j].event = c.event
                        => calls[r][j].fn \notin {"Process", "Store"}

\* A handler has returned after Validate refused its event, another after
\* Validate passed its event.
C15_Witness ==
    \E r, q \in ReqIds :
        /\ pc[r] = "done" /\ pc[q] = "done"
        /\ \E k \in DOMAIN calls[r] : calls[r][k].fn = "Validate" /\ calls[r][k].err # ""
        /\ \E k \in DOMAIN calls[q] : calls[q][k].fn = "Validate" /\ calls[q][k].err = ""

\* The senders blocked with the n-th job, as <<channel, position>>.
Waiting(n) ==
    {ck \in UNION {{<<c, k>> : k \in DOMAIN sendq[c]} : c \in DOMAIN sendq} :
        sendq[ck[1]][ck[2]].n = n}

\* C16: every job offered on a job channel is either still with its one
\* sender or was received once: no job is received by two workers or twice
\* by one, and processJob begins at most once for it.
C16_JobReceivedOnce ==
    /\ DOMAIN begun = 1..sent
    /\ \A n \in DOMAIN begun :
          /\ begun[n] <= 1
          /\ Cardinality(Waiting(n)) + begun[n] = 1

\* Two jobs were offered while two workers were started, and each job was
\* received.
C16_Witness ==
    /\ Cardinality(Started) >= 2
    /\ sent >= 2
    /\ \A n \in DOMAIN begun : begun[n] = 1

\* The handler of r returns in this step from a body it could not decode.
DecodeFailed(r) ==
    /\ pc[r] = "handler"
    /\ pc'[r] # "handler"
    /\ \/ req[r].route = "POST /events" /\ UnmarshalEvent(req[r].body).err
       \/ req[r].route = "POST /events/batch" /\ UnmarshalEvents(req[r].body).err

\* C19: a handler given a body it cannot decode writes exactly one
\* response, a 400, and returns: it calls nothing of the event service,
\* creates no worker and no channel, and nothing is sent or processed.
C19_UndecodableLeavesUnchanged ==
    [][ \A r \in ReqIds :
          DecodeFailed(r)
          => /\ pc'[r] = "done"
             /\ Len(resp'[r]) = 1
             /\ resp'[r][1].status = StatusBadRequest
             /\ calls' = calls
             /\ workers' = workers
             /\ sendq' = sendq
             /\ sent' = sent
             /\ begun' = begun
             /\ loopIdx' = loopIdx ]_vars

\* Both handlers have answered a body that is not JSON.
C19_Witness ==
    \E r, q \in ReqIds :
        /\ req[r].route = "POST /events" /\ req[r].body.kind = "garbage"
        /\ pc[r] = "done" /\ Statuses(r) = {StatusBadRequest}
        /\ req[q].route = "POST /events/batch" /\ req[q].body.kind = "garbage"
        /\ pc[q] = "done" /\ Statuses(q) = {StatusBadRequest}

====
